---- MODULE Spec2Model ----
(***************************************************************************)
(* qa-store: a question tree (QuestionAnswerTree), a similarity-searchable *)
(* store of question/answer documents (QuestionAnswerKB over a chromadb    *)
(* collection) and the facade that keeps the two in step                   *)
(* (QuestionAnswerSystem).                                                 *)
(*                                                                         *)
(* Python values are written as strings: a str is itself, None is          *)
(* "py:None" and the int 42 is "py:int:42", so that str(None) = "None" and *)
(* str(42) = "42" are conversions that change the value.                   *)
(***************************************************************************)
EXTENDS Integers, Sequences, FiniteSets, TLC

VARIABLES
    nodes,      \* the tree's table of questions; the row at index i has id i
    root,       \* QuestionAnswerTree.root: 0 (None) until build_tree sets it
    docs,       \* the collection's documents, in insertion order
    dist,       \* the embedding distance between two texts
    tieOrder,   \* how the store orders documents at the same distance
    last,       \* the last call and what it returned
    applied,    \* the ids of the nodes the tree's update_answer was applied to
    writers     \* each concurrent add_qa caller: where it is in its call

vars == <<nodes, root, docs, dist, tieOrder, last, applied, writers>>

\* ------------------------------------------------------------------ bounds

MaxNodes == 2
MaxDocs == 3
MaxResults == 2
MaxTreeNodes == 3
MaxReplies == 4

\* ------------------------------------------------------------------ values

None == "py:None"
Int42 == "py:int:42"
Absent == "py:absent"

\* the text get_tree_questions and update_tree_question query with
EmptyText == ""

QTexts == {"qa", "qb"}
AllTexts == QTexts \cup {EmptyText}

\* answers a client passes to answer_question
AnswerTexts == {"", "a"}

\* answers a client passes to add_qa and update_answer
KbAnswers == {"a"}

Sources == {"Wikipedia", "github"}

\* str(v) as add_qa and update_answer apply it to an answer
Str(v) ==
    IF v = None THEN "None"
    ELSE IF v = Int42 THEN "42"
    ELSE v

\* Python truthiness of an answer: None and "" are falsy
Truthy(v) == v # None /\ v # ""

\* ------------------------------------------------------------- small helpers

RECURSIVE SeqFilter(_, _)
SeqFilter(s, keep) ==
    IF s = <<>> THEN <<>>
    ELSE IF s[1] \in keep
         THEN <<s[1]>> \o SeqFilter(Tail(s), keep)
         ELSE SeqFilter(Tail(s), keep)

Take(s, n) == IF Len(s) <= n THEN s ELSE SubSeq(s, 1, n)

\* --------------------------------------------------- the similarity store

\* a query's `where`: no filter, or equality on one metadata key
NoFilter == [key |-> "none", val |-> Absent]
SourceFilter(v) == [key |-> "source", val |-> v]
TreeIdFilter(id) == [key |-> "tree_id", val |-> id]
FromTreeFilter == [key |-> "from_tree", val |-> TRUE]

\* a document without the key never matches an equality filter on it
Matches(d, flt) ==
    CASE flt.key = "none" -> TRUE
      [] flt.key = "source" -> d.source = flt.val
      [] flt.key = "tree_id" -> d.tree_id # 0 /\ d.tree_id = flt.val
      [] flt.key = "from_tree" -> d.from_tree = flt.val

\* the place of document i in the store's answer to a query for text q:
\* nearer documents first, equally near ones in the store's own order
StoreKey(ds, q, i) ==
    dist[<<q, ds[i].document>>] * (Len(ds) + 1)
        + (IF tieOrder = "first" THEN i ELSE Len(ds) + 1 - i)

RECURSIVE StoreRank(_, _, _)
StoreRank(ds, q, S) ==
    IF S = {} THEN <<>>
    ELSE LET i == CHOOSE j \in S :
                     \A k \in S : StoreKey(ds, q, j) <= StoreKey(ds, q, k)
         IN  <<i>> \o StoreRank(ds, q, S \ {i})

\* collection.query(query_texts=[q], n_results=n, where=flt): the indices of
\* the n nearest documents that match the filter
StoreQuery(ds, q, n, flt) ==
    Take(StoreRank(ds, q, {i \in 1..Len(ds) : Matches(ds[i], flt)}), n)

\* collection.add: a document whose id is already present is not added
RECURSIVE StoreAdd(_, _)
StoreAdd(ds, new) ==
    IF new = <<>> THEN ds
    ELSE IF \E i \in 1..Len(ds) : ds[i].id = new[1].id
         THEN StoreAdd(ds, Tail(new))
         ELSE StoreAdd(Append(ds, new[1]), Tail(new))

\* ------------------------------------------------------- QuestionAnswerKB

NoMetadata == [tree_id |-> 0, from_tree |-> FALSE, source |-> Absent]
SourceMetadata(v) == [tree_id |-> 0, from_tree |-> FALSE, source |-> v]
TreeMetadata(id) == [tree_id |-> id, from_tree |-> TRUE, source |-> Absent]

\* add_qa with the count left out of the ids: qa_<i>
KBAddQa_IdWithoutCount(ds, questions, answer, metadata) ==
    StoreAdd(ds,
        [i \in 1..Len(questions) |->
            [id |-> <<0, i - 1>>,
             document |-> questions[i],
             answer |-> Str(answer),
             tree_id |-> metadata.tree_id,
             from_tree |-> metadata.from_tree,
             source |-> metadata.source]])

\* add_qa with the number of questions of the call in the ids instead of the
\* collection's count
KBAddQa_IdFromBatchSize(ds, questions, answer, metadata) ==
    StoreAdd(ds,
        [i \in 1..Len(questions) |->
            [id |-> <<Len(questions), i - 1>>,
             document |-> questions[i],
             answer |-> Str(answer),
             tree_id |-> metadata.tree_id,
             from_tree |-> metadata.from_tree,
             source |-> metadata.source]])

\* add_qa once the question set is known: one document per question, all with
\* the same metadata and answer str(answer), ids qa_<count>_<i>
KBAddQa(ds, questions, answer, metadata) ==
    StoreAdd(ds,
        [i \in 1..Len(questions) |->
            [id |-> <<Len(ds), i - 1>>,
             document |-> questions[i],
             answer |-> Str(answer),
             tree_id |-> metadata.tree_id,
             from_tree |-> metadata.from_tree,
             source |-> metadata.source]])

\* one hit of query: the document, its answer, its other metadata, 1 - distance
Hit(ds, q, i) ==
    [question |-> ds[i].document,
     answer |-> ds[i].answer,
     metadata |-> [tree_id |-> ds[i].tree_id,
                   from_tree |-> ds[i].from_tree,
                   source |-> ds[i].source],
     similarity |-> 1 - dist[<<q, ds[i].document>>]]

\* the pool gathered without handing the filter to the store
RECURSIVE AllResults_FilterDropped(_, _, _, _)
AllResults_FilterDropped(ds, questions, n, flt) ==
    IF questions = <<>> THEN <<>>
    ELSE LET idx == StoreQuery(ds, questions[1], n, NoFilter)
         IN  [k \in 1..Len(idx) |-> Hit(ds, questions[1], idx[k])]
                 \o AllResults_FilterDropped(ds, Tail(questions), n, flt)

\* the pool: every query string's hits, in query-set order
RECURSIVE AllResults(_, _, _, _)
AllResults(ds, questions, n, flt) ==
    IF questions = <<>> THEN <<>>
    ELSE LET idx == StoreQuery(ds, questions[1], n, flt)
         IN  [k \in 1..Len(idx) |-> Hit(ds, questions[1], idx[k])]
                 \o AllResults(ds, Tail(questions), n, flt)

\* keep the first hit of each answer
RECURSIVE UniqueFrom(_, _)
UniqueFrom(rs, seen) ==
    IF rs = <<>> THEN <<>>
    ELSE IF rs[1].answer \in seen
         THEN UniqueFrom(Tail(rs), seen)
         ELSE <<rs[1]>> \o UniqueFrom(Tail(rs), seen \cup {rs[1].answer})

\* deduplication by question text instead of by answer
RECURSIVE UniqueResults_ByQuestion(_)
UniqueResults_ByQuestion(rs) ==
    IF rs = <<>> THEN <<>>
    ELSE <<rs[1]>> \o UniqueResults_ByQuestion(
             SelectSeq(Tail(rs), LAMBDA r : r.question # rs[1].question))

\* deduplication that keeps the last hit of each answer
UniqueResults_KeepLast(rs) ==
    LET rev(s) == [k \in 1..Len(s) |-> s[Len(s) + 1 - k]]
    IN  rev(UniqueFrom(rev(rs), {}))

UniqueResults(rs) == UniqueFrom(rs, {})

\* sorted(..., key=similarity, reverse=True): stable, so equal similarities
\* keep their order
InsertBySimilarity(sorted, r) ==
    LET before == {k \in 1..Len(sorted) : sorted[k].similarity >= r.similarity}
        n == Cardinality(before)
    IN  SubSeq(sorted, 1, n) \o <<r>> \o SubSeq(sorted, n + 1, Len(sorted))

RECURSIVE SortBySimilarity(_)
SortBySimilarity(rs) ==
    IF rs = <<>> THEN <<>>
    ELSE InsertBySimilarity(SortBySimilarity(SubSeq(rs, 1, Len(rs) - 1)),
                            rs[Len(rs)])

\* query that cuts the pool to n_results before sorting it
KBQuery_SliceBeforeSort(ds, questions, n, flt) ==
    SortBySimilarity(Take(UniqueResults(AllResults(ds, questions, n, flt)), n))

\* query once the question set is known
KBQuery(ds, questions, n, flt) ==
    Take(SortBySimilarity(UniqueResults(AllResults(ds, questions, n, flt))), n)

\* update_answer raises ValueError when the store returns no nearest document
KBUpdateAnswerRaises(ds, question) ==
    StoreQuery(ds, question, 1, NoFilter) = <<>>

\* update_answer that adds the updated document under a new id instead of
\* updating it in place
KBUpdateAnswer_AddsCopy(ds, question, new_answer) ==
    IF KBUpdateAnswerRaises(ds, question) THEN ds
    ELSE LET i == StoreQuery(ds, question, 1, NoFilter)[1]
         IN  Append(ds, [ds[i] EXCEPT !.id = <<Len(ds), 0>>,
                                      !.document = question,
                                      !.answer = Str(new_answer)])

\* update_answer: the nearest document to `question` gets the text `question`
\* and the answer str(new_answer), its other metadata kept
KBUpdateAnswer(ds, question, new_answer) ==
    IF KBUpdateAnswerRaises(ds, question) THEN ds
    ELSE LET i == StoreQuery(ds, question, 1, NoFilter)[1]
         IN  [ds EXCEPT ![i].document = question,
                        ![i].answer = Str(new_answer)]

\* the texts the store holds
StoredTexts(ds) == {ds[i].document : i \in 1..Len(ds)}

\* the documents tagged with a tree node's id
TaggedEntries(ds, tree_id) == {i \in 1..Len(ds) : ds[i].tree_id = tree_id}

KBAddTreeQuestion(ds, question, tree_id) ==
    KBAddQa(ds, <<question>>, None, TreeMetadata(tree_id))

\* get_tree_questions; n_results is the collection's count, and an empty
\* collection has nothing to return
KBGetTreeQuestions(ds) ==
    IF Len(ds) = 0 THEN <<>>
    ELSE KBQuery(ds, <<EmptyText>>, Len(ds), FromTreeFilter)

KBUpdateTreeQuestion(ds, tree_id, answer) ==
    LET results == KBQuery(ds, <<EmptyText>>, 1, TreeIdFilter(tree_id))
    IN  IF results # <<>>
        THEN KBUpdateAnswer(ds, results[1].question, answer)
        ELSE ds

\* ----------------------------------------------------- QuestionAnswerTree

NoParent == 0

\* a priority is the fraction <<numerator, denominator>>
ZeroPriority == <<0, 1>>

TreeIds(ns) == 1..Len(ns)

\* add_question that accepts any parent_id
TreeAddQuestionRaises_Never(ns, parent_id) == FALSE

TreeAddQuestionRaises(ns, parent_id) ==
    parent_id # NoParent /\ parent_id \notin TreeIds(ns)

\* add_question that stores every node as a root
TreeAddQuestion_ParentDropped(ns, question, parent_id) ==
    Append(ns, [question |-> question,
                answer |-> None,
                parent_id |-> NoParent,
                priority |-> ZeroPriority])

\* add_question: the new node takes the next id and has no answer
TreeAddQuestion(ns, question, parent_id) ==
    Append(ns, [question |-> question,
                answer |-> None,
                parent_id |-> parent_id,
                priority |-> ZeroPriority])

TreeUpdateAnswerRaises(ns, id) == id \notin TreeIds(ns)

TreeUpdateAnswer(ns, id, answer) == [ns EXCEPT ![id].answer = answer]

TreeIsAnswered(ns, id) == ns[id].answer # None

RECURSIVE IdsWhere(_, _, _)
IdsWhere(ns, i, answered) ==
    IF i > Len(ns) THEN <<>>
    ELSE IF (ns[i].answer # None) = answered
         THEN <<i>> \o IdsWhere(ns, i + 1, answered)
         ELSE IdsWhere(ns, i + 1, answered)

\* get_answered_questions / get_unanswered_questions: full scans in id order
TreeGetAnswered(ns) == IdsWhere(ns, 1, TRUE)
TreeGetUnanswered(ns) == IdsWhere(ns, 1, FALSE)

\* build_tree: the root pointer is the first node without a parent
BuildTree(ns) ==
    IF \E i \in TreeIds(ns) : ns[i].parent_id = NoParent
    THEN CHOOSE i \in TreeIds(ns) :
             /\ ns[i].parent_id = NoParent
             /\ \A j \in TreeIds(ns) : ns[j].parent_id = NoParent => i <= j
    ELSE 0

RECURSIVE Depth(_, _)
Depth(ns, id) ==
    IF ns[id].parent_id = NoParent THEN 0
    ELSE 1 + Depth(ns, ns[id].parent_id)

RECURSIVE Ancestors(_, _)
Ancestors(ns, id) ==
    IF ns[id].parent_id = NoParent THEN {}
    ELSE {ns[id].parent_id} \cup Ancestors(ns, ns[id].parent_id)

DescendantCount(ns, id) ==
    Cardinality({j \in TreeIds(ns) : id \in Ancestors(ns, j)})

\* priority(n) = (descendant_count(n) + 1) / (depth(n) + 1)
Priority(ns, id) == <<DescendantCount(ns, id) + 1, Depth(ns, id) + 1>>

\* calculate_priorities: every node's priority, in one pass
CalculatePriorities(ns) ==
    [i \in TreeIds(ns) |-> [ns[i] EXCEPT !.priority = Priority(ns, i)]]

PriorityGreater(p, q) == p[1] * q[2] > q[1] * p[2]

\* ties broken by the higher id
RanksBefore_TiesByHigherId(ns, i, j) ==
    \/ PriorityGreater(ns[i].priority, ns[j].priority)
    \/ /\ ~PriorityGreater(ns[j].priority, ns[i].priority)
       /\ i > j

\* i ranks before j: higher priority, or the same priority and a lower id
RanksBefore(ns, i, j) ==
    \/ PriorityGreater(ns[i].priority, ns[j].priority)
    \/ /\ ~PriorityGreater(ns[j].priority, ns[i].priority)
       /\ i < j

RECURSIVE RankIds(_, _)
RankIds(ns, S) ==
    IF S = {} THEN <<>>
    ELSE LET i == CHOOSE j \in S : \A k \in S \ {j} : RanksBefore(ns, j, k)
         IN  <<i>> \o RankIds(ns, S \ {i})

\* get_high_priority_questions() with n omitted: all nodes, ranked
GetHighPriorityQuestions(ns) == RankIds(ns, TreeIds(ns))

\* the n of a call that omits it
Omitted == -1

\* get_high_priority_questions(n): the first n of the ranking, all of it when
\* n is omitted
GetHighPriorityQuestionsN(ns, n) ==
    IF n = Omitted THEN GetHighPriorityQuestions(ns)
    ELSE Take(GetHighPriorityQuestions(ns), n)

\* get_question(id)
TreeGetQuestion(ns, id) ==
    [id |-> id,
     question |-> ns[id].question,
     answer |-> ns[id].answer,
     parent_id |-> ns[id].parent_id]

\* --------------------------------------------------- QuestionAnswerSystem

\* get_unanswered_questions: the tree's unanswered nodes as dicts
GetUnansweredQuestions(ns) ==
    LET qs == TreeGetUnanswered(ns)
    IN  [k \in 1..Len(qs) |->
            [id |-> qs[k],
             question |-> ns[qs[k]].question,
             parent_id |-> ns[qs[k]].parent_id]]

\* get_answered_questions that keeps only the nodes whose answer is truthy
GetAnsweredQuestions_TruthyOnly(ns) ==
    LET qs == SeqFilter(TreeGetAnswered(ns),
                        {i \in TreeIds(ns) : Truthy(ns[i].answer)})
    IN  [k \in 1..Len(qs) |->
            [id |-> qs[k],
             question |-> ns[qs[k]].question,
             answer |-> ns[qs[k]].answer,
             parent_id |-> ns[qs[k]].parent_id]]

\* get_answered_questions: the tree's answered nodes as dicts
GetAnsweredQuestions(ns) ==
    LET qs == TreeGetAnswered(ns)
    IN  [k \in 1..Len(qs) |->
            [id |-> qs[k],
             question |-> ns[qs[k]].question,
             answer |-> ns[qs[k]].answer,
             parent_id |-> ns[qs[k]].parent_id]]

\* the test without its is_answered half
SyncKbShouldUpdate_NoAnsweredCheck(ns, q) == q.answer # None

\* sync_kb_to_tree's test on one tagged entry
SyncKbShouldUpdate(ns, q) ==
    ~TreeIsAnswered(ns, q.metadata.tree_id) /\ q.answer # None

\* sync_kb_to_tree's loop over get_tree_questions()
RECURSIVE SyncKbLoop(_, _)
SyncKbLoop(ns, kb_questions) ==
    IF kb_questions = <<>> THEN ns
    ELSE LET q == kb_questions[1]
         IN  IF SyncKbShouldUpdate(ns, q)
             THEN SyncKbLoop(TreeUpdateAnswer(ns, q.metadata.tree_id, q.answer),
                             Tail(kb_questions))
             ELSE SyncKbLoop(ns, Tail(kb_questions))

\* the ids sync_kb_to_tree's loop hands to the tree's update_answer
RECURSIVE SyncKbUpdatedIds(_, _)
SyncKbUpdatedIds(ns, kb_questions) ==
    IF kb_questions = <<>> THEN {}
    ELSE LET q == kb_questions[1]
         IN  IF SyncKbShouldUpdate(ns, q)
             THEN {q.metadata.tree_id}
                      \cup SyncKbUpdatedIds(
                               TreeUpdateAnswer(ns, q.metadata.tree_id, q.answer),
                               Tail(kb_questions))
             ELSE SyncKbUpdatedIds(ns, Tail(kb_questions))

\* sync_tree_to_kb's loop over get_answered_questions()
RECURSIVE SyncTreeLoop(_, _, _)
SyncTreeLoop(ds, ns, tree_questions) ==
    IF tree_questions = <<>> THEN ds
    ELSE SyncTreeLoop(
             KBUpdateTreeQuestion(ds, tree_questions[1],
                                  ns[tree_questions[1]].answer),
             ns, Tail(tree_questions))

\* the tree as sync_kb_to_tree leaves it, the store as sync_tree_to_kb does
AfterSyncKbToTree(ds, ns) == SyncKbLoop(ns, KBGetTreeQuestions(ds))
AfterSyncTreeToKb(ds, ns) == SyncTreeLoop(ds, ns, TreeGetAnswered(ns))

\* suggest_next_question's filter: `not q.answer`
SuggestKeeps(ns, id) == ~Truthy(ns[id].answer)

\* suggest_next_question on the re-prioritised tree: the id suggested, 0 for None
SuggestedId(ns) ==
    LET high_priority_questions == GetHighPriorityQuestions(ns)
        unanswered_high_priority ==
            SeqFilter(high_priority_questions,
                      {i \in TreeIds(ns) : SuggestKeeps(ns, i)})
    IN  IF unanswered_high_priority = <<>> THEN 0
        ELSE unanswered_high_priority[1]

\* ------------------------------------------------------------------ state

\* distances: 0 between a text and itself, positive and symmetric otherwise;
\* up to renaming the two question texts, "qa" is no farther from the empty
\* text than "qb" is
DistTables ==
    {d \in [AllTexts \X AllTexts -> 0..2] :
        /\ \A t, u \in AllTexts :
              /\ d[<<t, u>>] = d[<<u, t>>]
              /\ (d[<<t, u>>] = 0) = (t = u)
        /\ d[<<EmptyText, "qa">>] <= d[<<EmptyText, "qb">>]
        /\ d[<<"qa", "qb">>] = 2}

\* the last call: its name and the node id it took or returned (0: none)
Call(op, id) == [op |-> op, id |-> id]

\* the concurrent callers of add_qa
Writers == {1, 2}

\* a caller outside add_qa that has completed `added` calls
IdleWriter(added) ==
    [pc |-> "idle", count |-> 0, question |-> EmptyText, answer |-> None,
     added |-> added]

Init ==
    /\ nodes = <<>>
    /\ root = 0
    /\ docs = <<>>
    /\ dist \in DistTables
    /\ tieOrder \in {"first", "last"}
    /\ last = Call("init", 0)
    /\ applied = {}
    /\ writers = [w \in Writers |-> IdleWriter(0)]

\* ---------------------------------------------------------------- actions

\* QuestionAnswerSystem.add_question(question, parent_id)
AddQuestion(question, parent_id) ==
    /\ Len(nodes) < MaxNodes
    /\ Len(docs) < MaxDocs
    /\ ~TreeAddQuestionRaises(nodes, parent_id)
    /\ nodes' = TreeAddQuestion(nodes, question, parent_id)
    /\ docs' = KBAddTreeQuestion(docs, question, Len(nodes'))
    /\ last' = Call("add_question", Len(nodes'))
    /\ UNCHANGED <<root, dist, tieOrder, applied, writers>>

\* add_question that tags the store's entry before the tree has checked the
\* parent
AddQuestionBadParent_EntryAdded(question, parent_id) ==
    /\ TreeAddQuestionRaises(nodes, parent_id)
    /\ Len(docs) < MaxDocs
    /\ docs' = KBAddTreeQuestion(docs, question, Len(nodes) + 1)
    /\ last' = Call("add_question ReferenceError", 0)
    /\ UNCHANGED <<nodes, root, dist, tieOrder, applied, writers>>

\* add_question with a parent that names no node: the tree raises and
\* add_tree_question is never reached
AddQuestionBadParent(question, parent_id) ==
    /\ TreeAddQuestionRaises(nodes, parent_id)
    /\ last' = Call("add_question ReferenceError", 0)
    /\ UNCHANGED <<nodes, root, docs, dist, tieOrder, applied, writers>>

\* QuestionAnswerSystem.answer_question(question_id, answer)
AnswerQuestion(question_id, answer) ==
    /\ ~TreeUpdateAnswerRaises(nodes, question_id)
    /\ nodes' = TreeUpdateAnswer(nodes, question_id, answer)
    /\ docs' = KBUpdateTreeQuestion(docs, question_id, answer)
    /\ last' = Call("answer_question", question_id)
    /\ applied' = applied \cup {question_id}
    /\ UNCHANGED <<root, dist, tieOrder, writers>>

\* answer_question that catches the tree's error and goes on to the store
AnswerUnknown_ErrorCaught(question_id, answer) ==
    /\ TreeUpdateAnswerRaises(nodes, question_id)
    /\ docs' = KBUpdateTreeQuestion(docs, question_id, answer)
    /\ last' = Call("answer_question", 0)
    /\ UNCHANGED <<nodes, root, dist, tieOrder, applied, writers>>

\* answer_question with an id that names no node: the tree raises and
\* update_tree_question is never reached
AnswerUnknown(question_id, answer) ==
    /\ TreeUpdateAnswerRaises(nodes, question_id)
    /\ last' = Call("answer_question NotFoundError", 0)
    /\ UNCHANGED <<nodes, root, docs, dist, tieOrder, applied, writers>>

\* QuestionAnswerKB.add_qa(question, answer, metadata) with no rewordings
AddQa(question, answer, metadata) ==
    /\ Len(docs) < MaxDocs
    /\ docs' = KBAddQa(docs, <<question>>, answer, metadata)
    /\ last' = Call("add_qa", 0)
    /\ UNCHANGED <<nodes, root, dist, tieOrder, applied, writers>>

\* QuestionAnswerKB.update_answer(question, new_answer)
UpdateAnswer(question, new_answer) ==
    /\ docs' = KBUpdateAnswer(docs, question, new_answer)
    /\ last' = Call(IF KBUpdateAnswerRaises(docs, question)
                     THEN "update_answer ValueError" ELSE "update_answer", 0)
    /\ UNCHANGED <<nodes, root, dist, tieOrder, applied, writers>>

\* QuestionAnswerSystem.sync_kb_to_tree()
SyncKbToTree ==
    /\ nodes' = AfterSyncKbToTree(docs, nodes)
    /\ last' = Call("sync_kb_to_tree", 0)
    /\ applied' = applied \cup SyncKbUpdatedIds(nodes, KBGetTreeQuestions(docs))
    /\ UNCHANGED <<root, docs, dist, tieOrder, writers>>

\* QuestionAnswerSystem.sync_tree_to_kb()
SyncTreeToKb ==
    /\ docs' = AfterSyncTreeToKb(docs, nodes)
    /\ last' = Call("sync_tree_to_kb", 0)
    /\ UNCHANGED <<nodes, root, dist, tieOrder, applied, writers>>

\* QuestionAnswerSystem.suggest_next_question()
SuggestNextQuestion ==
    /\ root' = IF root = 0 THEN BuildTree(nodes) ELSE root
    /\ nodes' = CalculatePriorities(nodes)
    /\ last' = Call("suggest_next_question", SuggestedId(nodes'))
    /\ UNCHANGED <<docs, dist, tieOrder, applied, writers>>

\* the facade's calls, add_qa, and update_answer for a question the store
\* holds (update_answer for any text is part of NextKB)
Next ==
    \/ \E q \in QTexts, p \in 0..MaxNodes : AddQuestion(q, p)
    \/ \E q \in QTexts, p \in 1..MaxNodes : AddQuestionBadParent(q, p)
    \/ \E id \in 1..MaxNodes, a \in AnswerTexts : AnswerQuestion(id, a)
    \/ \E id \in 1..MaxNodes, a \in AnswerTexts : AnswerUnknown(id, a)
    \/ \E q \in QTexts, a \in KbAnswers : AddQa(q, a, NoMetadata)
    \/ \E q \in StoredTexts(docs), a \in KbAnswers : UpdateAnswer(q, a)
    \/ SyncKbToTree
    \/ SyncTreeToKb
    \/ SuggestNextQuestion

Spec == Init /\ [][Next]_vars

\* ------------------------------------------- the knowledge base on its own

\* the query sets: one string, or a caller's list used as it is
QuerySets == {<<q>> : q \in QTexts} \cup {<<"qa", "qb">>}

\* answers a client passes to add_qa: a text or a number
KbAddAnswers == {"a", Int42}

QueryFilters == {NoFilter} \cup {SourceFilter(v) : v \in Sources}

KbMetadatas == {NoMetadata} \cup {SourceMetadata(v) : v \in Sources}

\* a call of query and the list it returned
QueryCall(questions, n, flt, res) ==
    [op |-> "query", id |-> 0,
     questions |-> questions, n |-> n, flt |-> flt, res |-> res]

\* QuestionAnswerKB.query(questions, n_results, metadata_filter)
Query(questions, n, flt) ==
    /\ last' = QueryCall(questions, n, flt, KBQuery(docs, questions, n, flt))
    /\ UNCHANGED <<nodes, root, docs, dist, tieOrder, applied, writers>>

NextKB ==
    \/ \E q \in QTexts, a \in KbAddAnswers, md \in KbMetadatas : AddQa(q, a, md)
    \/ \E q \in QTexts, a \in KbAnswers : UpdateAnswer(q, a)
    \/ \E qs \in QuerySets, n \in 1..MaxResults, flt \in QueryFilters :
           Query(qs, n, flt)

\* none of these calls queries with the empty text, so one distance from it
\* stands for all
InitKB ==
    /\ Init
    /\ dist[<<EmptyText, "qa">>] = 1
    /\ dist[<<EmptyText, "qb">>] = 1

SpecKB == InitKB /\ [][NextKB]_vars

\* ------------------------------------------------- queries with two strings

\* query sets whose strings lie at different distances from the documents
RankQuerySets == {<<EmptyText, "qa">>, <<EmptyText, "qb">>, <<"qa", "qb">>}

NextRank ==
    \/ \E q \in QTexts, a \in KbAddAnswers : AddQa(q, a, NoMetadata)
    \/ \E qs \in RankQuerySets, n \in 1..MaxResults : Query(qs, n, NoFilter)

SpecRank == InitKB /\ [][NextRank]_vars

\* --------------------------------------------------------------- rewordings

\* str.strip() on the texts of the model
Strip(t) == IF t = " qb" THEN "qb" ELSE t

\* what the completion service does with a rewording prompt: it fails, or it
\* answers with a text, given here as the lines split("\n") cuts the stripped
\* text into (the empty text gives one empty line)
CompletionFails == [ok |-> FALSE, lines |-> <<>>]
CompletionLines(ls) == [ok |-> TRUE, lines |-> ls]

RewordReplies ==
    {CompletionFails} \cup
        {CompletionLines(ls) : ls \in {<<"qb">>, <<" qb">>, <<"qa", "qb">>, <<"">>}}

\* the values of num_rewordings
RewordCounts == {0, 2}

\* generate_rewordings that answers a failed completion with the question alone
GenerateRewordings_ErrorCaught(question, num_rewordings, reply) ==
    IF num_rewordings = 0 \/ ~reply.ok
    THEN [raised |-> FALSE, questions |-> <<question>>]
    ELSE LET questions == <<question>> \o reply.lines
         IN  [raised |-> FALSE,
              questions |-> [i \in 1..Len(questions) |-> Strip(questions[i])]]

\* generate_rewordings: the question followed by the reply's lines, each
\* stripped; a failure of the completion call is not caught
GenerateRewordings(question, num_rewordings, reply) ==
    IF num_rewordings = 0
    THEN [raised |-> FALSE, questions |-> <<question>>]
    ELSE IF ~reply.ok
    THEN [raised |-> TRUE, questions |-> <<>>]
    ELSE LET questions == <<question>> \o reply.lines
         IN  [raised |-> FALSE,
              questions |-> [i \in 1..Len(questions) |-> Strip(questions[i])]]

\* the question set add_qa and query build from a question string
QuestionSet(question, num_rewordings, reply) ==
    IF num_rewordings > 0
    THEN GenerateRewordings(question, num_rewordings, reply)
    ELSE [raised |-> FALSE, questions |-> <<question>>]

\* QuestionAnswerKB.add_qa(question, answer, num_rewordings=k)
AddQaReworded(question, answer, num_rewordings, reply) ==
    LET qs == QuestionSet(question, num_rewordings, reply)
    IN  /\ Len(docs) + Len(qs.questions) <= MaxDocs
        /\ docs' = IF qs.raised THEN docs
                   ELSE KBAddQa(docs, qs.questions, answer, NoMetadata)
        /\ last' = Call(IF qs.raised THEN "add_qa CompletionError"
                        ELSE "add_qa", 0)
        /\ UNCHANGED <<nodes, root, dist, tieOrder, applied, writers>>

\* QuestionAnswerKB.query(question, n_results, num_rewordings=k)
QueryReworded(question, n, num_rewordings, reply) ==
    LET qs == QuestionSet(question, num_rewordings, reply)
    IN  /\ last' = IF qs.raised THEN Call("query CompletionError", 0)
                   ELSE QueryCall(qs.questions, n, NoFilter,
                                  KBQuery(docs, qs.questions, n, NoFilter))
        /\ UNCHANGED <<nodes, root, docs, dist, tieOrder, applied, writers>>

\* the lists of question strings a caller passes
ListInputs == {<<"qa", "qb">>, <<"qb", "qa">>}

\* the question set add_qa and query build from a caller's list: the list
\* itself when rewordings are asked for, otherwise a list whose one element is
\* the caller's list
ListQuestionSet(question, num_rewordings) ==
    IF num_rewordings > 0 THEN question ELSE <<question>>

\* what the store does with a list where it expects a text: it rejects the
\* call (Absent), or it takes the list as one item, embedded like some text
ListLandings == {Absent} \cup QTexts

\* a call with a caller's list: the question set built and what came of it
ListCall(op, questions, res) ==
    [op |-> op, id |-> 0, questions |-> questions, res |-> res]

\* QuestionAnswerKB.query(question, n_results, num_rewordings=k) with a list
QueryList(question, n, num_rewordings, landing) ==
    LET questions == ListQuestionSet(question, num_rewordings)
    IN  /\ last' =
               IF num_rewordings > 0
               THEN ListCall("query", questions,
                             KBQuery(docs, questions, n, NoFilter))
               ELSE IF landing = Absent
               THEN ListCall("query StoreError", questions, <<>>)
               ELSE ListCall("query", questions,
                             KBQuery(docs, <<landing>>, n, NoFilter))
        /\ UNCHANGED <<nodes, root, docs, dist, tieOrder, applied, writers>>

\* QuestionAnswerKB.add_qa(question, answer, num_rewordings=k) with a list.
\* Without rewordings the call never returns: the store rejects the list, or
\* it adds it as one document and the closing set(questions) raises TypeError
\* on the list inside the question set.
AddQaList(question, answer, num_rewordings, landing) ==
    LET questions == ListQuestionSet(question, num_rewordings)
    IN  /\ Len(docs) + Len(question) <= MaxDocs
        /\ docs' =
               IF num_rewordings > 0
               THEN KBAddQa(docs, questions, answer, NoMetadata)
               ELSE IF landing = Absent THEN docs
               ELSE KBAddQa(docs, <<landing>>, answer, NoMetadata)
        /\ last' =
               IF num_rewordings > 0
               THEN ListCall("add_qa", questions, <<>>)
               ELSE IF landing = Absent
               THEN ListCall("add_qa StoreError", questions, <<>>)
               ELSE ListCall("add_qa TypeError", questions, <<>>)
        /\ UNCHANGED <<nodes, root, dist, tieOrder, applied, writers>>

\* QuestionAnswerKB.clear(): every document is deleted
Clear ==
    /\ docs' = <<>>
    /\ last' = Call("clear", 0)
    /\ UNCHANGED <<nodes, root, dist, tieOrder, applied, writers>>

\* QuestionAnswerKB.reset_database(): the collection is dropped and recreated
ResetDatabase ==
    /\ docs' = <<>>
    /\ last' = Call("reset_database", 0)
    /\ UNCHANGED <<nodes, root, dist, tieOrder, applied, writers>>

NextReword ==
    \/ \E q \in QTexts, a \in KbAnswers, k \in RewordCounts,
          reply \in RewordReplies : AddQaReworded(q, a, k, reply)
    \/ \E q \in QTexts, n \in 1..MaxResults, k \in RewordCounts,
          reply \in RewordReplies : QueryReworded(q, n, k, reply)
    \/ \E qs \in ListInputs, a \in KbAnswers, k \in RewordCounts,
          landing \in ListLandings : AddQaList(qs, a, k, landing)
    \/ \E qs \in ListInputs, n \in 1..MaxResults, k \in RewordCounts,
          landing \in ListLandings : QueryList(qs, n, k, landing)
    \/ Clear
    \/ ResetDatabase

SpecReword == InitKB /\ [][NextReword]_vars

\* ------------------------------------------------------ generate_qa_pairs

\* JSON values as json.loads builds them
JText == [type |-> "string"]
JNumber == [type |-> "number"]
JArray(items) == [type |-> "array", items |-> items]
JObject(keys, vals) == [type |-> "object", keys |-> keys, vals |-> vals]

\* the texts the completion service may answer an extraction prompt with
NotJson == "oops"
TopLevelArray == "[1]"
EmptyObject == "{}"
GoodPairs == "{\"pairs\": [{\"q\": \"x\", \"a\": \"y\"}]}"
PairWithoutA == "{\"pairs\": [{\"q\": \"x\"}]}"
PairWithoutQ == "{\"pairs\": [{\"a\": \"y\"}]}"
NoPairs == "{\"pairs\": []}"
BarePair == "{\"q\": \"x\", \"a\": \"y\"}"
PairsNotAList == "{\"pairs\": \"none\"}"
NumberAsPair == "{\"pairs\": [1]}"

QaContents ==
    {NotJson, TopLevelArray, EmptyObject, GoodPairs, PairWithoutA, PairWithoutQ,
     NoPairs, BarePair, PairsNotAList, NumberAsPair}

\* json.loads on those texts; ok is false where it raises JSONDecodeError
JsonLoads(content) ==
    CASE content = NotJson ->
             [ok |-> FALSE, value |-> JText]
      [] content = TopLevelArray ->
             [ok |-> TRUE, value |-> JArray(<<JNumber>>)]
      [] content = EmptyObject ->
             [ok |-> TRUE, value |-> JObject(<<>>, <<>>)]
      [] content = GoodPairs ->
             [ok |-> TRUE,
              value |-> JObject(<<"pairs">>,
                           <<JArray(<<JObject(<<"q", "a">>, <<JText, JText>>)>>)>>)]
      [] content = PairWithoutA ->
             [ok |-> TRUE,
              value |-> JObject(<<"pairs">>,
                           <<JArray(<<JObject(<<"q">>, <<JText>>)>>)>>)]
      [] content = PairWithoutQ ->
             [ok |-> TRUE,
              value |-> JObject(<<"pairs">>,
                           <<JArray(<<JObject(<<"a">>, <<JText>>)>>)>>)]
      [] content = NoPairs ->
             [ok |-> TRUE, value |-> JObject(<<"pairs">>, <<JArray(<<>>)>>)]
      [] content = BarePair ->
             [ok |-> TRUE, value |-> JObject(<<"q", "a">>, <<JText, JText>>)]
      [] content = PairsNotAList ->
             [ok |-> TRUE, value |-> JObject(<<"pairs">>, <<JText>>)]
      [] content = NumberAsPair ->
             [ok |-> TRUE,
              value |-> JObject(<<"pairs">>, <<JArray(<<JNumber>>)>>)]

\* get_json_list: the exception it raises ("none" when it returns) and the
\* list it returns
GetJsonList(content) ==
    LET loaded == JsonLoads(content)
        json_data == loaded.value
    IN  IF ~loaded.ok
        THEN [exc |-> "JSONDecodeError", list |-> <<>>]
        ELSE IF json_data.type # "object"
        THEN [exc |-> "ValueError", list |-> <<>>]
        ELSE IF json_data.keys = <<>>
        THEN [exc |-> "StopIteration", list |-> <<>>]
        ELSE IF json_data.vals[1].type # "array"
        THEN [exc |-> "none", list |-> <<json_data>>]
        ELSE [exc |-> "none", list |-> json_data.vals[1].items]

\* a dict with both keys
ValidPair(pair) ==
    /\ pair.type = "object"
    /\ \E i \in 1..Len(pair.keys) : pair.keys[i] = "q"
    /\ \E i \in 1..Len(pair.keys) : pair.keys[i] = "a"

\* handlers for json.JSONDecodeError alone
Caught_JsonErrorOnly(exc) == exc = "JSONDecodeError"

\* the handlers of generate_qa_pairs: json.JSONDecodeError, then Exception
Caught(exc) ==
    \/ exc = "JSONDecodeError"
    \/ exc \in {"CompletionError", "ValueError", "StopIteration"}

\* a reply of the completion service: it fails, or it answers with a text
QaReplyFails == [ok |-> FALSE, content |-> ""]
QaReply(content) == [ok |-> TRUE, content |-> content]

QaReplies == {QaReplyFails} \cup {QaReply(c) : c \in QaContents}

\* the body of the try block on one reply: the exception it ends with
\* ("none" when it returns) and the pairs it returns
TryExtract(reply) ==
    IF ~reply.ok THEN [exc |-> "CompletionError", pairs |-> <<>>]
    ELSE LET qa_pairs == GetJsonList(reply.content)
         IN  IF qa_pairs.exc # "none"
             THEN [exc |-> qa_pairs.exc, pairs |-> <<>>]
             ELSE IF \E k \in 1..Len(qa_pairs.list) :
                         ~ValidPair(qa_pairs.list[k])
             THEN [exc |-> "ValueError", pairs |-> <<>>]
             ELSE [exc |-> "none", pairs |-> qa_pairs.list]

\* generate_qa_pairs against a service that would give `replies` to
\* successive calls: one call is made; what the handlers catch becomes []
KBGenerateQaPairs(replies) ==
    LET got == TryExtract(replies[1])
    IN  [calls |-> 1,
         raised |-> got.exc # "none" /\ ~Caught(got.exc),
         pairs |-> got.pairs]

\* a call of generate_qa_pairs: the service's replies, the number of
\* completion calls made, whether an exception reached the caller, the result
GenerateCall(replies, out) ==
    [op |-> "generate_qa_pairs", id |-> 0, replies |-> replies,
     calls |-> out.calls, raised |-> out.raised, pairs |-> out.pairs]

\* QuestionAnswerKB.generate_qa_pairs(input_text)
GenerateQaPairs(replies) ==
    /\ last' = GenerateCall(replies, KBGenerateQaPairs(replies))
    /\ UNCHANGED <<nodes, root, docs, dist, tieOrder, applied, writers>>

\* what the service would answer to a second and later call
LaterReplies == {QaReplyFails, QaReply(NotJson), QaReply(GoodPairs)}

NextGen ==
    \E first \in QaReplies, later \in [2..MaxReplies -> LaterReplies] :
        GenerateQaPairs([k \in 1..MaxReplies |->
                            IF k = 1 THEN first ELSE later[k]])

\* generate_qa_pairs never looks at the store, so one store stands for all
InitGen ==
    /\ InitKB
    /\ tieOrder = "first"

SpecGen == InitGen /\ [][NextGen]_vars

\* ------------------------------------------------- the tree store on its own

\* a call of the tree's add_question and the node get_question returns for
\* the id it gave
TreeAddCall(id, node) == [op |-> "tree.add_question", id |-> id, node |-> node]

\* QuestionAnswerTree.add_question(question, parent_id), then get_question
TreeAddQuestionCall(question, parent_id) ==
    /\ Len(nodes) < MaxTreeNodes
    /\ ~TreeAddQuestionRaises(nodes, parent_id)
    /\ nodes' = TreeAddQuestion(nodes, question, parent_id)
    /\ last' = TreeAddCall(Len(nodes'), TreeGetQuestion(nodes', Len(nodes')))
    /\ UNCHANGED <<root, docs, dist, tieOrder, applied, writers>>

\* QuestionAnswerTree.add_question with a parent that names no node
TreeAddQuestionFails(question, parent_id) ==
    /\ TreeAddQuestionRaises(nodes, parent_id)
    /\ last' = Call("tree.add_question ReferenceError", 0)
    /\ UNCHANGED <<nodes, root, docs, dist, tieOrder, applied, writers>>

\* QuestionAnswerTree.update_answer(id, answer)
TreeUpdateAnswerCall(id, answer) ==
    /\ ~TreeUpdateAnswerRaises(nodes, id)
    /\ nodes' = TreeUpdateAnswer(nodes, id, answer)
    /\ applied' = applied \cup {id}
    /\ last' = Call("tree.update_answer", id)
    /\ UNCHANGED <<root, docs, dist, tieOrder, writers>>

\* QuestionAnswerTree.calculate_priorities()
TreeCalculatePriorities ==
    /\ nodes' = CalculatePriorities(nodes)
    /\ last' = Call("tree.calculate_priorities", 0)
    /\ UNCHANGED <<root, docs, dist, tieOrder, applied, writers>>

\* a call of get_high_priority_questions and the ids of the nodes it returned
HighPriorityCall(n, res) ==
    [op |-> "tree.get_high_priority_questions", id |-> 0, n |-> n, res |-> res]

\* QuestionAnswerTree.get_high_priority_questions(n)
TreeGetHighPriorityQuestions(n) ==
    /\ last' = HighPriorityCall(n, GetHighPriorityQuestionsN(nodes, n))
    /\ UNCHANGED <<nodes, root, docs, dist, tieOrder, applied, writers>>

NextTree ==
    \/ \E q \in QTexts, p \in 0..MaxTreeNodes : TreeAddQuestionCall(q, p)
    \/ \E q \in QTexts, p \in 1..MaxTreeNodes : TreeAddQuestionFails(q, p)
    \/ \E id \in 1..MaxTreeNodes, a \in AnswerTexts : TreeUpdateAnswerCall(id, a)
    \/ TreeCalculatePriorities
    \/ \E n \in {Omitted} \cup 1..MaxTreeNodes : TreeGetHighPriorityQuestions(n)

\* the tree's calls never look at the store, so one store stands for all
InitTree ==
    /\ InitKB
    /\ tieOrder = "first"

SpecTree == InitTree /\ [][NextTree]_vars

\* ------------------------------------------------- two callers of add_qa

\* the calls of add_qa completed so far, and those under way
TotalAdded == writers[1].added + writers[2].added
InFlight == Cardinality({w \in Writers : writers[w].pc = "counted"})

\* add_qa's call of collection.add with the ids it built from the count it
\* read
KBAddQaCounted(ds, count, questions, answer, metadata) ==
    StoreAdd(ds,
        [i \in 1..Len(questions) |->
            [id |-> <<count, i - 1>>,
             document |-> questions[i],
             answer |-> Str(answer),
             tree_id |-> metadata.tree_id,
             from_tree |-> metadata.from_tree,
             source |-> metadata.source]])

\* add_qa up to the ids: the caller has read collection.count()
WriterCount(w, question, answer) ==
    /\ writers[w].pc = "idle"
    /\ TotalAdded + InFlight < MaxDocs
    /\ writers' = [writers EXCEPT ![w] =
           [pc |-> "counted", count |-> Len(docs), question |-> question,
            answer |-> answer, added |-> writers[w].added]]
    /\ UNCHANGED <<nodes, root, docs, dist, tieOrder, last, applied>>

\* add_qa reading the count in one step with collection.add
WriterAdd_CountsAtAdd(w) ==
    /\ writers[w].pc = "counted"
    /\ docs' = KBAddQa(docs, <<writers[w].question>>, writers[w].answer,
                       NoMetadata)
    /\ writers' = [writers EXCEPT ![w] = IdleWriter(writers[w].added + 1)]
    /\ last' = Call("add_qa", 0)
    /\ UNCHANGED <<nodes, root, dist, tieOrder, applied>>

\* the rest of add_qa: collection.add with the ids built from the count read
WriterAdd(w) ==
    /\ writers[w].pc = "counted"
    /\ docs' = KBAddQaCounted(docs, writers[w].count, <<writers[w].question>>,
                              writers[w].answer, NoMetadata)
    /\ writers' = [writers EXCEPT ![w] = IdleWriter(writers[w].added + 1)]
    /\ last' = Call("add_qa", 0)
    /\ UNCHANGED <<nodes, root, dist, tieOrder, applied>>

NextConc ==
    \/ \E w \in Writers, q \in QTexts, a \in KbAddAnswers : WriterCount(w, q, a)
    \/ \E w \in Writers : WriterAdd(w)

SpecConc == InitKB /\ [][NextConc]_vars

\* --------------------------------------------------- the two sync passes

\* is_answered, and update_answer after it, raise NotFoundError for an id
\* that names no node
TreeIsAnsweredRaises(ns, id) == id \notin TreeIds(ns)

\* sync_kb_to_tree's loop as it runs: an entry whose tree_id names no node
\* raises out of the loop, and the entries after it are never looked at.
\* raised is that tree_id, 0 when the loop came to its end.
RECURSIVE SyncKbRun(_, _)
SyncKbRun(ns, kb_questions) ==
    IF kb_questions = <<>> THEN [nodes |-> ns, raised |-> 0]
    ELSE LET q == kb_questions[1]
         IN  IF TreeIsAnsweredRaises(ns, q.metadata.tree_id)
             THEN [nodes |-> ns, raised |-> q.metadata.tree_id]
             ELSE IF SyncKbShouldUpdate(ns, q)
             THEN SyncKbRun(TreeUpdateAnswer(ns, q.metadata.tree_id, q.answer),
                            Tail(kb_questions))
             ELSE SyncKbRun(ns, Tail(kb_questions))

\* sync_tree_to_kb's loop as it runs: the store's call fails at the fault-th
\* answered question (0: at none) and the error leaves the loop
SyncTreeRun(ds, ns, tree_questions, fault) ==
    IF fault = 0
    THEN [docs |-> SyncTreeLoop(ds, ns, tree_questions), raised |-> 0]
    ELSE [docs |-> SyncTreeLoop(ds, ns, Take(tree_questions, fault - 1)),
          raised |-> tree_questions[fault]]

\* QuestionAnswerKB.add_tree_question(question, tree_id), called on the
\* facade's kb
AddTreeQuestion(question, tree_id) ==
    /\ Len(docs) < MaxDocs
    /\ docs' = KBAddTreeQuestion(docs, question, tree_id)
    /\ last' = Call("add_tree_question", tree_id)
    /\ UNCHANGED <<nodes, root, dist, tieOrder, applied, writers>>

\* QuestionAnswerSystem.sync_kb_to_tree() with entries of any tree_id
SyncKbToTreeRun ==
    LET run == SyncKbRun(nodes, KBGetTreeQuestions(docs))
    IN  /\ nodes' = run.nodes
        /\ last' = IF run.raised = 0 THEN Call("sync_kb_to_tree", 0)
                   ELSE Call("sync_kb_to_tree NotFoundError", run.raised)
        /\ applied' = applied \cup
               {i \in TreeIds(nodes) : run.nodes[i].answer # nodes[i].answer}
        /\ UNCHANGED <<root, docs, dist, tieOrder, writers>>

\* QuestionAnswerSystem.sync_tree_to_kb() with a store that may fail
SyncTreeToKbRun(fault) ==
    LET tree_questions == TreeGetAnswered(nodes)
        run == SyncTreeRun(docs, nodes, tree_questions, fault)
    IN  /\ fault <= Len(tree_questions)
        /\ docs' = run.docs
        /\ last' = IF run.raised = 0 THEN Call("sync_tree_to_kb", 0)
                   ELSE Call("sync_tree_to_kb StoreError", run.raised)
        /\ UNCHANGED <<nodes, root, dist, tieOrder, applied, writers>>

NextSync ==
    \/ \E q \in QTexts, p \in 0..MaxNodes : AddQuestion(q, p)
    \/ \E id \in 1..MaxNodes, a \in AnswerTexts : AnswerQuestion(id, a)
    \/ \E q \in QTexts, id \in 1..MaxNodes : AddTreeQuestion(q, id)
    \/ \E q \in StoredTexts(docs), a \in KbAnswers : UpdateAnswer(q, a)
    \/ SyncKbToTreeRun
    \/ \E fault \in 0..MaxNodes : SyncTreeToKbRun(fault)

SpecSync == Init /\ [][NextSync]_vars

\* ------------------------------------------------------------------ claims

\* C1: after answer_question(id, a) on a node added through the facade, the
\* tree node id has answer a and the tagged entry whose tree_id is id carries
\* answer a, whatever other documents the store holds.
C1_AnswerReachesTaggedEntry ==
    [][\A id \in 1..MaxNodes, a \in AnswerTexts :
          AnswerQuestion(id, a) =>
              /\ nodes'[id].answer = a
              /\ TaggedEntries(docs', id) # {}
              /\ \A i \in TaggedEntries(docs', id) : docs'[i].answer = a]_vars

\* C2: add_question(q, p) returning id leaves exactly one tagged entry with
\* text q, tree_id = id and from_tree = true, and in every reachable state each
\* tree node has exactly one tagged entry carrying its id.
C2_OneTaggedEntryPerNode ==
    /\ \A id \in TreeIds(nodes) :
          /\ Cardinality(TaggedEntries(docs, id)) = 1
          /\ \A i \in TaggedEntries(docs, id) : docs[i].from_tree
    /\ last.op = "add_question" =>
          \A i \in TaggedEntries(docs, last.id) :
              docs[i].document = nodes[last.id].question

\* add_question has returned the second node's id, with an untagged document
\* added in between
C2_Witness ==
    /\ last.op = "add_question"
    /\ last.id = 2
    /\ Len(docs) = 3
    /\ \E i \in 1..Len(docs) : docs[i].tree_id = 0

\* C3: suggest_next_question never returns a node that is answered in the
\* Tree Store (a node whose answer is not None), whatever the answer text.
C3_SuggestionUnanswered ==
    (last.op = "suggest_next_question" /\ last.id # 0)
        => ~TreeIsAnswered(nodes, last.id)

\* the unanswered node that ranks highest under freshly computed priorities,
\* 0 when there is none
FreshBest(ns) ==
    LET unanswered == {i \in TreeIds(ns) : ns[i].answer = None}
    IN  IF unanswered = {} THEN 0
        ELSE CHOOSE i \in unanswered :
                 \A j \in unanswered \ {i} :
                     \/ PriorityGreater(Priority(ns, i), Priority(ns, j))
                     \/ /\ ~PriorityGreater(Priority(ns, j), Priority(ns, i))
                        /\ i < j

\* C4: suggest_next_question returns the unanswered node that ranks highest
\* under priorities freshly recomputed over the whole current tree, and none
\* exactly when the tree is empty or every node is answered.
C4_SuggestionIsFreshBest ==
    last.op = "suggest_next_question" => last.id = FreshBest(nodes)

\* C5: sync_kb_to_tree never changes the answer of a node that is already
\* answered in the Tree Store, whatever answers the tagged entries carry.
C5_SyncKbKeepsAnswered ==
    [][SyncKbToTree =>
          \A id \in TreeIds(nodes) :
              TreeIsAnswered(nodes, id) =>
                  nodes'[id].answer = nodes[id].answer]_vars

\* sync_kb_to_tree has run over an answered node whose tagged entry carries
\* another answer
C5_Witness ==
    /\ last.op = "sync_kb_to_tree"
    /\ \E id \in TreeIds(nodes) :
          /\ TreeIsAnswered(nodes, id)
          /\ \E i \in TaggedEntries(docs, id) :
                docs[i].answer # nodes[id].answer

\* C6: a node created by add_question and never answered in either store is
\* still unanswered after sync_kb_to_tree runs.
C6_SyncKbLeavesUnanswered ==
    [][SyncKbToTree =>
          \A id \in TreeIds(nodes) :
              (/\ ~TreeIsAnswered(nodes, id)
               /\ \A i \in TaggedEntries(docs, id) : docs[i].answer = Str(None))
                  => ~TreeIsAnswered(nodes', id)]_vars

\* C7: after sync_tree_to_kb, for every answered node the tagged entry with
\* its id carries the node's answer, and no entry of another tree_id (or of
\* none) has had its answer or text changed by the pass.
C7_SyncTreeReachesTaggedEntries ==
    [][SyncTreeToKb =>
          /\ \A id \in TreeIds(nodes) :
                TreeIsAnswered(nodes, id) =>
                    \A i \in TaggedEntries(docs', id) :
                        docs'[i].answer = nodes[id].answer
          /\ \A i \in 1..Len(docs) :
                (\A id \in TreeIds(nodes) :
                     TreeIsAnswered(nodes, id) => docs[i].tree_id # id)
                    => docs'[i] = docs[i]]_vars

\* C8: each sync pass is idempotent: from any reachable state, a second run
\* right after the first leaves both stores as the first run left them.
C8_SyncIdempotent ==
    /\ AfterSyncTreeToKb(AfterSyncTreeToKb(docs, nodes), nodes)
           = AfterSyncTreeToKb(docs, nodes)
    /\ AfterSyncKbToTree(docs, AfterSyncKbToTree(docs, nodes))
           = AfterSyncKbToTree(docs, nodes)

\* a state in which a first run of either pass changes its target store
C8_Witness ==
    /\ AfterSyncTreeToKb(docs, nodes) # docs
    /\ AfterSyncKbToTree(docs, nodes) # nodes

\* C9: the list query returns holds no two entries with the same answer and
\* at most n_results entries.
C9_QueryUniqueAndBounded ==
    last.op = "query" =>
        /\ Len(last.res) <= last.n
        /\ \A i, j \in 1..Len(last.res) :
              last.res[i].answer = last.res[j].answer => i = j

\* query has returned a full list from a store that holds the same answer
\* twice among more than n_results matching documents
C9_Witness ==
    /\ last.op = "query"
    /\ Len(last.res) = last.n
    /\ Cardinality({i \in 1..Len(docs) : Matches(docs[i], last.flt)}) > last.n
    /\ \E i, j \in 1..Len(docs) :
          /\ i # j
          /\ docs[i].answer = docs[j].answer
          /\ Matches(docs[i], last.flt)
          /\ Matches(docs[j], last.flt)

\* C10: query with a metadata_filter returns only entries whose metadata
\* equals the filter on the filtered key, returns an entry when one was added
\* with matching metadata, and returns an empty list when none matches.
C10_FilterRoundTrip ==
    (last.op = "query" /\ last.flt.key = "source") =>
        /\ \A k \in 1..Len(last.res) :
              last.res[k].metadata.source = last.flt.val
        /\ (last.res = <<>>) =
              (\A i \in 1..Len(docs) : docs[i].source # last.flt.val)

\* a filtered query has returned an entry while the store also holds
\* documents the filter excludes
C10_Witness ==
    /\ last.op = "query"
    /\ last.flt.key = "source"
    /\ last.res # <<>>
    /\ \E i \in 1..Len(docs) : docs[i].source # last.flt.val

\* C11: right after add_qa(q, a) with no rewordings, a query for the exact
\* text q returns as its first result an entry whose answer equals the value a
\* that was passed, be it a text or a number.
C11_AddThenQueryReturnsAnswer ==
    [][\A q \in QTexts, a \in KbAddAnswers, md \in KbMetadatas :
          AddQa(q, a, md) =>
              LET res == KBQuery(docs', <<q>>, MaxResults, NoFilter)
              IN  /\ res # <<>>
                  /\ res[1].answer = a]_vars

\* C17: update_answer(question, a) for a text no stored document has fails
\* with the not-found error and leaves every document as it was, whether the
\* store is empty or holds other questions.
C17_UpdateAbsentQuestionFails ==
    [][\A q \in QTexts, a \in KbAnswers :
          (UpdateAnswer(q, a) /\ q \notin StoredTexts(docs)) =>
              /\ last'.op = "update_answer ValueError"
              /\ docs' = docs]_vars

\* C13: add_question with a parent_id that names no node fails with
\* ReferenceError and leaves both stores unchanged: no tree node is created and
\* no tagged entry is added.
C13_BadParentChangesNothing ==
    [][\A q \in QTexts, p \in 1..MaxNodes :
          (/\ p \notin TreeIds(nodes)
           /\ AddQuestion(q, p) \/ AddQuestionBadParent(q, p)) =>
              /\ last'.op = "add_question ReferenceError"
              /\ nodes' = nodes
              /\ docs' = docs]_vars

\* add_question has failed on a bad parent while both stores hold a node's
\* question and there is room for more
C13_Witness ==
    /\ last.op = "add_question ReferenceError"
    /\ Len(nodes) = 1
    /\ Len(docs) < MaxDocs
    /\ TaggedEntries(docs, 1) # {}

\* C14: answer_question with an id that names no node fails with
\* NotFoundError and changes nothing: no node's answer changes and no entry of
\* the store is updated.
C14_UnknownIdChangesNothing ==
    [][\A id \in 1..MaxNodes, a \in AnswerTexts :
          (/\ id \notin TreeIds(nodes)
           /\ AnswerQuestion(id, a) \/ AnswerUnknown(id, a)) =>
              /\ last'.op = "answer_question NotFoundError"
              /\ nodes' = nodes
              /\ docs' = docs]_vars

\* answer_question has failed on an unknown id while the tree holds an
\* unanswered node and the store its tagged entry
C14_Witness ==
    /\ last.op = "answer_question NotFoundError"
    /\ Len(nodes) = 1
    /\ ~TreeIsAnswered(nodes, 1)
    /\ TaggedEntries(docs, 1) # {}

\* C15: in every reachable state get_unanswered_questions returns exactly the
\* nodes update_answer was never applied to and get_answered_questions exactly
\* the others, so the two lists are disjoint and together hold every node once.
C15_AnsweredSplitsByUpdate ==
    LET un == GetUnansweredQuestions(nodes)
        an == GetAnsweredQuestions(nodes)
    IN  /\ {un[k].id : k \in 1..Len(un)} = TreeIds(nodes) \ applied
        /\ {an[k].id : k \in 1..Len(an)} = TreeIds(nodes) \cap applied
        /\ Len(un) + Len(an) = Len(nodes)
        /\ \A k \in 1..Len(an) : an[k].answer = nodes[an[k].id].answer

\* one node was answered with the empty text and the other never
C15_Witness ==
    /\ Len(nodes) = 2
    /\ nodes[1].answer = ""
    /\ nodes[2].answer = None
    /\ applied = {1}

\* C12: for every text q and every parent p that is absent or names a node,
\* get_question(add_question(q, p)) returns a node with question q, parent_id
\* p and no answer, and the id is greater than every id assigned before.
C12_AddQuestionRoundTrip ==
    [][\A q \in QTexts, p \in 0..MaxTreeNodes :
          TreeAddQuestionCall(q, p) =>
              /\ last'.node.id = last'.id
              /\ last'.node.question = q
              /\ last'.node.parent_id = p
              /\ last'.node.answer = None
              /\ \A j \in TreeIds(nodes) : last'.id > j
              /\ \A j \in TreeIds(nodes) : nodes'[j] = nodes[j]]_vars

\* add_question has returned the third node, a child of the second, after
\* the first was answered
C12_Witness ==
    /\ last.op = "tree.add_question"
    /\ last.id = 3
    /\ last.node.parent_id = 2
    /\ nodes[1].answer # None

\* a root with two childless children, priorities as calculate_priorities
\* leaves them
RootWithTwoChildren ==
    /\ Len(nodes) = 3
    /\ nodes[1].parent_id = NoParent
    /\ nodes[2].parent_id = 1
    /\ nodes[3].parent_id = 1
    /\ nodes = CalculatePriorities(nodes)

\* C16: get_high_priority_questions(n) returns nodes in descending priority,
\* ties broken by ascending id, at most n of them and all nodes when n is
\* omitted; after calculate_priorities a root with two childless children comes
\* before either child, answered or not.
C16_HighPriorityOrder ==
    last.op = "tree.get_high_priority_questions" =>
        LET res == last.res
            pr(i) == nodes[i].priority
        IN  /\ Len(res) = IF last.n = Omitted \/ last.n > Len(nodes)
                           THEN Len(nodes) ELSE last.n
            /\ \A k \in 1..Len(res) : res[k] \in TreeIds(nodes)
            /\ \A j, k \in 1..Len(res) :
                  j < k =>
                      /\ ~PriorityGreater(pr(res[k]), pr(res[j]))
                      /\ ~PriorityGreater(pr(res[j]), pr(res[k]))
                             => res[j] < res[k]
            /\ \A i \in TreeIds(nodes) \ {res[k] : k \in 1..Len(res)} :
                  \A k \in 1..Len(res) :
                      /\ ~PriorityGreater(pr(i), pr(res[k]))
                      /\ ~PriorityGreater(pr(res[k]), pr(i)) => res[k] < i
            /\ RootWithTwoChildren => res[1] = 1

\* get_high_priority_questions(2) has returned the answered root and its
\* first child, the second child left out
C16_Witness ==
    /\ last.op = "tree.get_high_priority_questions"
    /\ last.n = 2
    /\ RootWithTwoChildren
    /\ nodes[1].answer # None
    /\ last.res = <<1, 2>>

\* C18: when rewordings of a question string are asked for and the completion
\* call fails, add_qa and query hand the failure to the caller, query returns
\* no result list, and add_qa has added no document.
C18_RewordingFailurePropagates ==
    [][\A q \in QTexts, k \in RewordCounts \ {0} :
          /\ \A a \in KbAnswers :
                AddQaReworded(q, a, k, CompletionFails) =>
                    /\ last'.op = "add_qa CompletionError"
                    /\ docs' = docs
          /\ \A n \in 1..MaxResults :
                QueryReworded(q, n, k, CompletionFails) =>
                    last' = Call("query CompletionError", 0)]_vars

\* add_qa has failed on the completion call with room left in a store that
\* holds a question and its rewording
C18_Witness ==
    /\ last.op = "add_qa CompletionError"
    /\ Len(docs) = 2
    /\ docs[1].id[1] = docs[2].id[1]

\* C19: on malformed JSON generate_qa_pairs calls the completion service
\* again, up to 3 more times, and only when those retries are used up gives up
\* and returns no pairs.
C19_MalformedJsonIsRetried ==
    (last.op = "generate_qa_pairs" /\ last.replies[1] = QaReply(NotJson)) =>
        LET malformed == {k \in 1..(1 + 3) :
                             \A j \in 1..k : last.replies[j] = QaReply(NotJson)}
            m == Cardinality(malformed)
        IN  /\ last.calls = IF m = 1 + 3 THEN m ELSE m + 1
            /\ m = 1 + 3 => last.pairs = <<>>
            /\ last.replies[2] = QaReply(GoodPairs) => last.pairs # <<>>

\* C20: generate_qa_pairs never raises past its caller: on a completion
\* error, unparsable JSON, a JSON value that is not an object, or a pair
\* without 'q' or 'a' it returns the empty list, and every element of a result
\* is an object with both keys.
C20_GenerateNeverRaises ==
    last.op = "generate_qa_pairs" =>
        /\ ~last.raised
        /\ last.replies[1] \in
               {QaReplyFails, QaReply(NotJson), QaReply(TopLevelArray),
                QaReply(PairWithoutA), QaReply(PairWithoutQ)}
              => last.pairs = <<>>
        /\ \A k \in 1..Len(last.pairs) :
              /\ last.pairs[k].type = "object"
              /\ {"q", "a"} \subseteq
                     {last.pairs[k].keys[i] : i \in 1..Len(last.pairs[k].keys)}

\* generate_qa_pairs has returned the empty list for a reply whose only pair
\* lacks the 'a' key
C20_Witness ==
    /\ last.op = "generate_qa_pairs"
    /\ last.replies[1] = QaReply(PairWithoutA)
    /\ last.pairs = <<>>
    /\ ~last.raised

\* C23: after sync_kb_to_tree every node that was unanswered in the tree and
\* whose tagged entry carries an answer has that entry's answer, also when
\* tagged entries of different tree_ids carry the same answer.
C23_SyncKbConsidersEveryEntry ==
    [][SyncKbToTree =>
          \A id \in TreeIds(nodes) :
              \A i \in TaggedEntries(docs, id) :
                  (~TreeIsAnswered(nodes, id) /\ docs[i].answer # Str(None))
                      => nodes'[id].answer = docs[i].answer]_vars

\* C24: get_tree_questions returns one result per tagged entry: exactly as
\* many results as questions were added through the facade, one for each
\* tree_id, none for an entry without the from_tree tag.
C24_OneResultPerTaggedEntry ==
    LET res == KBGetTreeQuestions(docs)
    IN  /\ Len(res) = Len(nodes)
        /\ {res[k].metadata.tree_id : k \in 1..Len(res)} = TreeIds(nodes)
        /\ \A k \in 1..Len(res) : res[k].metadata.from_tree

\* the node k steps up the parent chain from node i: 0 past a root
RECURSIVE NthAncestor(_, _, _)
NthAncestor(ns, i, k) ==
    IF k = 0 THEN i
    ELSE LET j == NthAncestor(ns, i, k - 1)
         IN  IF j = NoParent THEN NoParent
             ELSE IF j \notin TreeIds(ns) THEN j
             ELSE ns[j].parent_id

\* C28: in every reachable state every node's parent_id, when present, names
\* an existing node, and the parent chain from any node reaches a root without
\* visiting a node twice.
C28_TreeIntegrity ==
    \A i \in TreeIds(nodes) :
        /\ nodes[i].parent_id = NoParent \/ nodes[i].parent_id \in TreeIds(nodes)
        /\ nodes[i].parent_id # i
        /\ NthAncestor(nodes, i, Len(nodes)) = NoParent

\* add_question has put a child under the first node
C28_Witness ==
    /\ last.op = "add_question"
    /\ last.id = 2
    /\ nodes[2].parent_id = 1

\* C29: update_answer(q, a) on a stored question q changes only the answer of
\* a document whose text is q: the number of documents, every other document
\* and that document's other metadata stay, so a tree question is still
\* returned by get_tree_questions and a query for q returns a.
C29_UpdateAnswerFrame ==
    [][\A q \in QTexts, a \in KbAnswers :
          (UpdateAnswer(q, a) /\ q \in StoredTexts(docs)) =>
              \E i \in 1..Len(docs) :
                  /\ docs[i].document = q
                  /\ docs' = [docs EXCEPT ![i].answer = a]
                  /\ docs[i].from_tree =>
                        \E k \in 1..Len(KBGetTreeQuestions(docs')) :
                            KBGetTreeQuestions(docs')[k].metadata.tree_id
                                = docs[i].tree_id
                  /\ KBQuery(docs', <<q>>, MaxResults, NoFilter)[1].answer = a]_vars

\* C25: the list query returns is ordered by non-increasing similarity and
\* holds the n_results most similar entries of the deduplicated pool: no hit of
\* the pool left out is strictly more similar than a hit returned.
C25_TopOfDeduplicatedPool ==
    last.op = "query" =>
        LET pool == UniqueResults(
                        AllResults(docs, last.questions, last.n, last.flt))
            res == last.res
        IN  /\ Len(res) = IF Len(pool) < last.n THEN Len(pool) ELSE last.n
            /\ \A j, k \in 1..Len(res) :
                  j < k => res[j].similarity >= res[k].similarity
            /\ \A k \in 1..Len(res) : \E p \in 1..Len(pool) : pool[p] = res[k]
            /\ \A p \in 1..Len(pool) :
                  (\A k \in 1..Len(res) : res[k] # pool[p]) =>
                      \A k \in 1..Len(res) :
                          pool[p].similarity <= res[k].similarity

\* query has returned the second hit of a pool of two and left out the
\* first, less similar one
C25_Witness ==
    /\ last.op = "query"
    /\ last.n = 1
    /\ LET pool == UniqueResults(
                       AllResults(docs, last.questions, last.n, last.flt))
       IN  /\ Len(pool) = 2
           /\ pool[1].similarity < pool[2].similarity
           /\ last.res = <<pool[2]>>

\* C26: for each answer the hit query keeps is the first one in pooling order
\* (query strings in query-set order, within one query the store's order);
\* later hits with that answer are dropped whatever their similarity.
C26_FirstHitOfEachAnswerKept ==
    last.op = "query" =>
        LET all == AllResults(docs, last.questions, last.n, last.flt)
            first(answer) ==
                CHOOSE p \in 1..Len(all) :
                    /\ all[p].answer = answer
                    /\ \A r \in 1..Len(all) : all[r].answer = answer => p <= r
        IN  \A k \in 1..Len(last.res) :
                last.res[k] = all[first(last.res[k].answer)]

\* query has returned a hit although a later hit of the pool has the same
\* answer and a strictly higher similarity
C26_Witness ==
    /\ last.op = "query"
    /\ LET all == AllResults(docs, last.questions, last.n, last.flt)
       IN  \E k \in 1..Len(last.res), p, r \in 1..Len(all) :
               /\ all[p] = last.res[k]
               /\ p < r
               /\ all[r].answer = all[p].answer
               /\ all[r].similarity > all[p].similarity

\* C27: with num_rewordings = 0 and one string the question set of query and
\* add_qa is that string alone, whatever the completion service would do; with
\* a caller's list the question set is that list as it is, one store query or
\* one stored document per element, for num_rewordings = 0 as for more.
C27_QuestionSetConstruction ==
    [][/\ \A q \in QTexts, reply \in RewordReplies :
             /\ \A n \in 1..MaxResults :
                   QueryReworded(q, n, 0, reply) =>
                       /\ last'.op = "query"
                       /\ last'.questions = <<q>>
             /\ \A a \in KbAnswers :
                   AddQaReworded(q, a, 0, reply) =>
                       /\ last'.op = "add_qa"
                       /\ Len(docs') = Len(docs) + 1
                       /\ docs'[Len(docs')].document = q
       /\ \A qs \in ListInputs, k \in RewordCounts, landing \in ListLandings :
             /\ \A n \in 1..MaxResults :
                   QueryList(qs, n, k, landing) =>
                       /\ last'.op = "query"
                       /\ Len(last'.questions) = Len(qs)
                       /\ \A i \in 1..Len(qs) : last'.questions[i] = qs[i]
             /\ \A a \in KbAnswers :
                   AddQaList(qs, a, k, landing) =>
                       /\ last'.op = "add_qa"
                       /\ Len(docs') = Len(docs) + Len(qs)
                       /\ \A i \in 1..Len(qs) :
                             docs'[Len(docs) + i].document = qs[i]]_vars

\* C30: with one writer no add_qa call, with or without rewordings and also
\* after clear or reset_database, assigns an id the collection already holds:
\* the ids stay distinct and the count grows by the number of questions the
\* call indexed.
C30_IdsNeverCollide ==
    [][/\ \A i, j \in 1..Len(docs') : docs'[i].id = docs'[j].id => i = j
       /\ \A q \in QTexts, a \in KbAnswers, k \in RewordCounts,
            reply \in RewordReplies :
             (AddQaReworded(q, a, k, reply) /\ last'.op = "add_qa") =>
                 Len(docs') = Len(docs) + Len(QuestionSet(q, k, reply).questions)
       /\ \A qs \in ListInputs, a \in KbAnswers, landing \in ListLandings :
             AddQaList(qs, a, 2, landing) => Len(docs') = Len(docs) + Len(qs)]_vars

\* add_qa has indexed a question and its rewording into a collection that
\* was cleared after earlier additions, next to a document added since
C30_Witness ==
    /\ last.op = "add_qa"
    /\ Len(docs) = 3
    /\ docs[1].id = <<0, 0>>
    /\ docs[2].id = <<1, 0>>
    /\ docs[3].id = <<1, 1>>

\* C21: a sync pass goes over all its nodes even when one of them fails. After
\* sync_kb_to_tree the tree is as the loop over every tagged entry that names
\* a node leaves it, after sync_tree_to_kb the store is as the loop over every
\* answered question but the failing one leaves it, and a failure is reported.
C21_SyncRunsToCompletion ==
    [][/\ SyncKbToTreeRun =>
             LET kb_questions == KBGetTreeQuestions(docs)
                 sound == {kb_questions[i] : i \in
                              {j \in 1..Len(kb_questions) :
                                  kb_questions[j].metadata.tree_id
                                      \in TreeIds(nodes)}}
             IN  /\ nodes' = SyncKbLoop(nodes, SeqFilter(kb_questions, sound))
                 /\ (sound # {kb_questions[i] : i \in 1..Len(kb_questions)})
                        => last'.op = "sync_kb_to_tree NotFoundError"
       /\ \A fault \in 0..MaxNodes :
             SyncTreeToKbRun(fault) =>
                 LET tree_questions == TreeGetAnswered(nodes)
                 IN  /\ docs' = SyncTreeLoop(docs, nodes,
                            SeqFilter(tree_questions,
                                {tree_questions[i] : i \in
                                    1..Len(tree_questions) \ {fault}}))
                     /\ fault # 0 => last'.op = "sync_tree_to_kb StoreError"]_vars

\* C22: two callers of add_qa can read the same count before either adds;
\* they build the same id and one document is lost. An add leaves the
\* collection as it was exactly when another caller's add came between this
\* caller's count and its add, and the collection never holds more documents
\* than were added.
C22_StaleCountLosesDocument ==
    [][/\ \A w \in Writers :
             WriterAdd(w) => (docs' = docs) = (writers[w].count < Len(docs))
       /\ Len(docs') <= writers'[1].added + writers'[2].added]_vars

\* both callers have returned from add_qa, three additions in all, and the
\* collection holds fewer documents than were added
C22_Witness ==
    /\ \A w \in Writers : writers[w].pc = "idle" /\ writers[w].added > 0
    /\ TotalAdded = 3
    /\ Len(docs) < TotalAdded
====
